---- MODULE Spec2Model ----
(***************************************************************************)
(* Model of box-gen (src/main.py): the cement controller _default, the     *)
(* geometry of create_full_box_with_lid and the packaging by create_tar_gz *)
(* and shutil.move.                                                        *)
(*                                                                         *)
(* Numbers.  The inputs drawn here are multiples of 0.5; they, their sums,  *)
(* differences and halves are doubles without rounding error and are kept  *)
(* as integer numbers of ticks, Unit ticks being 1.0.  The literal 0.15 is *)
(* no double: the code adds the double nearest to it and the sum is        *)
(* rounded to a double again.  Such a value is a record [t, u], standing   *)
(* for t ticks plus u times 2^-55 / 5; FAddClearance computes it bit for   *)
(* bit as IEEE 754 round-to-nearest-even does.  Mesh coordinates are kept  *)
(* to the tick: the part u of an extent, below 2^-45 here, is smaller than *)
(* every distance the boolean difference compares.                         *)
(*                                                                         *)
(* trimesh.  creation.box(extents) is the box centred on the origin whose  *)
(* corners are +-0.5 * extents; it is a volume iff the product of the      *)
(* extents is positive.  Trimesh.difference raises ValueError unless both  *)
(* operands are volumes (check_volume, trimesh 4), otherwise it is the     *)
(* solid outer minus cavity.                                               *)
(*                                                                         *)
(* Files.  The file system does not fail by itself: the only exceptions    *)
(* are those the program's own calls raise on the state they find.         *)
(***************************************************************************)
EXTENDS Integers, Sequences, FiniteSets, TLC

VARIABLES
    pc,       \* position in _default (or in create_full_box_with_lid, GeomSpec)
    args,     \* self.app.pargs: length, width, height optional (lines 13-18)
    run,      \* number of the invocation under way in the working directory
    tmp,      \* the scratch directory of tempfile.TemporaryDirectory (line 38)
    archive,  \* the directory archive/ of the working directory (lines 57-65)
    out,      \* what the invocation has printed
    last,     \* how the invocation ended: returned, ok, error
    pre,      \* archive/ as it was when the invocation started
    log,      \* the file-system steps the invocation has taken, in order
    i,        \* the pass of the loop of line 64 (1..3), 4 once it has ended
    geo       \* what create_full_box_with_lid built and exported

vars == <<pc, args, run, tmp, archive, out, last, pre, log, i, geo>>

----------------------------------------------------------------------------
(* Bounds *)

\* invocations made in one working directory
MaxRuns == 2
\* --length of an invocation ranges over -1.0, 0.0, .. MaxLen.0
MaxLen == 2
\* geometry: L, W, H range over -1.0, 0.0, .. MaxDim.0
MaxDim == 2
\* geometry: T, O, LH range over -0.5, 0.0, 0.5, .. MaxHalves * 0.5
MaxHalves == 5

----------------------------------------------------------------------------
(* Numbers *)

Unit == 4 * 10
Half == Unit \div 2
Two == 2 * Unit
Clearance == (15 * Unit) \div 100
DefaultThickness == 2 * Unit
DefaultOverlap == 2 * Unit
DefaultLidHeight == 5 * Unit

\* an optional command-line value: None when the option is absent
None == <<>>
Some(v) == <<v>>

Abs(x) == IF x < 0 THEN 0 - x ELSE x

\* str(float) of a multiple of 0.1, as the f-strings of the file names print it
FloatStr(v) ==
    (IF v < 0 THEN "-" ELSE "")
        \o ToString(Abs(v) \div Unit) \o "."
        \o ToString(((Abs(v) % Unit) * 10) \div Unit)

\* {length}x{width}x{height}
DimStr(a) == FloatStr(a.length) \o "x" \o FloatStr(a.width) \o "x" \o FloatStr(a.height)

base_filename(a) == "box_base_" \o DimStr(a) \o ".stl"
lid_filename(a) == "box_lid_" \o DimStr(a) \o ".stl"
readme_filename == "README.txt"
file_basename(a) == "box_" \o DimStr(a)
tar_filename(a) == file_basename(a) \o ".tar.gz"

----------------------------------------------------------------------------
(* trimesh: boxes, translation, boolean difference *)

Axes == 1..3

NoMesh == [kind |-> "none", lo |-> <<0, 0, 0>>, hi |-> <<0, 0, 0>>, volume |-> FALSE]

\* trimesh.creation.box(extents)
Box(e) ==
    [kind |-> "mesh",
     lo |-> [k \in Axes |-> 0 - (Abs(e[k]) \div 2)],
     hi |-> [k \in Axes |-> Abs(e[k]) \div 2],
     volume |-> (e[1] * e[2] * e[3] > 0)]

\* mesh.apply_translation(t)
Translate(m, t) ==
    [m EXCEPT !.lo = [k \in Axes |-> m.lo[k] + t[k]],
              !.hi = [k \in Axes |-> m.hi[k] + t[k]]]

\* the cavity spans the whole cross-section of the outer box on every axis but k
CoversAcross(o, c, k) ==
    \A j \in Axes \ {k} : c.lo[j] <= o.lo[j] /\ c.hi[j] >= o.hi[j]

\* the bounding box of the solid  outer minus cavity  (both volumes)
Carve(o, c) ==
    LET lo == [k \in Axes |->
                  IF CoversAcross(o, c, k) /\ c.lo[k] <= o.lo[k] /\ c.hi[k] > o.lo[k]
                  THEN c.hi[k] ELSE o.lo[k]]
        hi == [k \in Axes |->
                  IF CoversAcross(o, c, k) /\ c.hi[k] >= o.hi[k] /\ c.lo[k] < o.hi[k]
                  THEN c.lo[k] ELSE o.hi[k]]
    IN  IF \E k \in Axes : lo[k] >= hi[k]
        THEN [kind |-> "empty", lo |-> <<0, 0, 0>>, hi |-> <<0, 0, 0>>, volume |-> FALSE]
        ELSE [kind |-> "mesh", lo |-> lo, hi |-> hi, volume |-> TRUE]

\* Trimesh.difference raises ValueError("Not all meshes are volumes!")
DifferenceRaises(o, c) == ~(o.volume /\ c.volume)

\* outer.difference(cavity)
Difference(o, c) == IF DifferenceRaises(o, c) THEN NoMesh ELSE Carve(o, c)

\* the bounding extent of a mesh on the three axes
Extents(m) == [k \in Axes |-> m.hi[k] - m.lo[k]]

----------------------------------------------------------------------------
(* create_full_box_with_lid: the dimension arithmetic *)

external_length(a) == a.length + 2 * a.thickness
external_width(a) == a.width + 2 * a.thickness
\* mutant: the floor counted twice
base_height_twice(a) == a.height + 2 * a.thickness
base_height(a) == a.height + a.thickness

base_outer(a) == Box(<<external_length(a), external_width(a), base_height(a)>>)
\* mutant: the cavity left centred on the outer box
base_translation_centred(a) == <<0, 0, a.thickness \div 2>>
base_translation(a) == <<a.thickness - Two, a.thickness - Two, a.thickness \div 2>>
base_inner(a) == Translate(Box(<<a.length, a.width, a.height>>), base_translation(a))

\* mutant: the overlap added on one side only
lid_external_length_once(a) == external_length(a) + a.overlap
lid_external_length(a) == external_length(a) + 2 * a.overlap
lid_external_width(a) == external_width(a) + 2 * a.overlap
lid_total_height(a) == a.lid_height

lid_outer(a) == Box(<<lid_external_length(a), lid_external_width(a), lid_total_height(a)>>)

\* The double 0.15 is 0x13333333333333 * 2^-55, which is 0.15 less a fifth
\* of 2^-55: ClearanceLow holds the low 32 bits of that mantissa.
ClearanceLow == 858993459
ClearanceDouble == [t |-> Clearance, u |-> 0 - 1]

\* the unit in the last place of a double of |q| ticks (|q| >= 5), counted in
\* 2^-55: the largest power of two p with p / 8 <= |q| / Unit
RECURSIVE UlpUnits(_, _)
UlpUnits(q, p) == IF 10 * p <= Abs(q) THEN UlpUnits(q, 2 * p) ELSE p

\* x + 0.15 in double arithmetic, x a multiple of 0.5 given in ticks: the
\* mantissa of 0.15 is rounded to the ulp of the sum, ties to even
FAddClearance(x) ==
    LET p == UlpUnits(x + Clearance, 1)
        low == ClearanceLow % p
        up == \/ 2 * low > p
              \/ (p > 1 /\ 2 * low = p /\ (ClearanceLow \div p) % 2 = 1)
        adj == IF up THEN p - low ELSE 0 - low
    IN  [t |-> x + Clearance, u |-> ClearanceDouble.u + 5 * adj]

\* v - x in double arithmetic (exact here), x in ticks
FSub(v, x) == [t |-> v.t - x, u |-> v.u]

\* v >= x, x in ticks
FGe(v, x) == v.t > x \/ (v.t = x /\ v.u >= 0)

\* the value to the tick
Nominal(v) == v.t

\* mutant: the clearance taken from the lid's own outer length
lid_inner_length_outer(a) == FAddClearance(lid_external_length(a))
lid_inner_length(a) == FAddClearance(external_length(a))
lid_inner_width(a) == FAddClearance(external_width(a))
lid_inner_height(a) == a.lid_height - (a.thickness \div 2)

lid_translation(a) == <<a.overlap - Two, a.overlap - Two, a.thickness \div 2>>
lid_inner(a) ==
    Translate(Box(<<Nominal(lid_inner_length(a)), Nominal(lid_inner_width(a)),
                    lid_inner_height(a)>>),
              lid_translation(a))

\* The whole function: what it builds, what it exports before it returns or
\* raises, and what it prints.
create_full_box_with_lid(a) ==
    LET baseRaises == DifferenceRaises(base_outer(a), base_inner(a))
        lidRaises == DifferenceRaises(lid_outer(a), lid_inner(a))
    IN  [called |-> TRUE,
         raised |-> baseRaises \/ lidRaises,
         box_base |-> Difference(base_outer(a), base_inner(a)),
         box_lid |-> IF baseRaises THEN NoMesh
                     ELSE Difference(lid_outer(a), lid_inner(a)),
         exported |-> IF baseRaises THEN <<>>
                      ELSE IF lidRaises THEN <<base_filename(a)>>
                      ELSE <<base_filename(a), lid_filename(a)>>,
         printed |-> IF baseRaises \/ lidRaises THEN <<>>
                     ELSE <<"Exported box base", "Exported box lid">>]

NoGeo ==
    [called |-> FALSE, raised |-> FALSE, box_base |-> NoMesh, box_lid |-> NoMesh,
     exported |-> <<>>, printed |-> <<>>]

----------------------------------------------------------------------------
(* The file system: a directory is present or not and holds files; a file  *)
(* records the invocation that wrote it and, for a tarball, its entries.   *)

NoDir == [exists |-> FALSE, files |-> {}]
EmptyDir == [exists |-> TRUE, files |-> {}]

File(name, r) == [name |-> name, run |-> r, entries |-> <<>>]

Names(d) == {f.name : f \in d.files}
Has(d, name) == d.exists /\ name \in Names(d)
Get(d, name) == CHOOSE f \in d.files : f.name = name

\* open(path, 'w'), export, tarfile.open(path, 'w:gz'): create or truncate
Put(d, f) == [d EXCEPT !.files = {g \in d.files : g.name # f.name} \cup {f}]
Remove(d, name) == [d EXCEPT !.files = {g \in d.files : g.name # name}]

RECURSIVE PutAll(_, _, _)
PutAll(d, names, r) ==
    IF names = <<>> THEN d
    ELSE PutAll(Put(d, File(Head(names), r)), Tail(names), r)

----------------------------------------------------------------------------
(* One invocation of the program: MyBaseController._default *)

\* the arguments of the call of create_full_box_with_lid (line 41)
Params(p) ==
    [length |-> p.length[1], width |-> p.width[1], height |-> p.height[1],
     thickness |-> p.thickness, overlap |-> p.overlap, lid_height |-> p.lid_height]

NoArgs ==
    [length |-> None, width |-> None, height |-> None,
     thickness |-> DefaultThickness, overlap |-> DefaultOverlap,
     lid_height |-> DefaultLidHeight]

\* the command lines tried
CliArgs ==
    [length : {None} \cup {Some(Unit * k) : k \in -1..MaxLen},
     width : {None, Some(Unit)},
     height : {None, Some(Unit)},
     thickness : {DefaultThickness, 2 * DefaultThickness},
     overlap : {DefaultOverlap},
     lid_height : {Two, DefaultLidHeight}]

\* mutant: a truthiness test, which also rejects 0.0
Missing_falsy(p) ==
    \/ p.length \in {None, Some(0)}
    \/ p.width \in {None, Some(0)}
    \/ p.height \in {None, Some(0)}
\* line 33
Missing(p) == p.length = None \/ p.width = None \/ p.height = None

\* A path is the sequence of its components.
tmpdirname == "tmpdirname"
archive_dir == "archive"

\* os.path.join(dir, name)
Join(dir, name) == <<dir, name>>

\* mutant: the entry named by its whole path
Basename_path(path) == path[1] \o "/" \o path[Len(path)]
\* os.path.basename(path)
Basename(path) == path[Len(path)]

\* lines 44-48
files_to_include(p) ==
    <<Join(tmpdirname, base_filename(Params(p))),
      Join(tmpdirname, lid_filename(Params(p))),
      Join(tmpdirname, readme_filename)>>

\* line 62
output_filename(p) == Join(archive_dir, tar_filename(Params(p)))

\* create_tar_gz: the entries tar.add writes, in order, each under its
\* arcname; a file that is not in the scratch directory d stops the loop
\* (FileNotFoundError)
RECURSIVE TarEntries(_, _)
TarEntries(d, files) ==
    IF files = <<>> \/ ~Has(d, Head(files)[2]) THEN <<>>
    ELSE <<Basename(Head(files))>> \o TarEntries(d, Tail(files))

\* shutil.move(file, 'archive') raises Error when archive/<basename> exists
MoveRaises(d, file) == Has(d, Basename(file))

\* the scratch directory once shutil.move has relocated a file out of it
Relocated(d, name) == Remove(d, name)

\* mutant: the loop of line 64 dedented out of the with block, so that the
\* scratch directory is removed first
AfterTar_dedent(n) == IF n = 3 THEN "cleanup" ELSE "unwind"
\* the position after create_tar_gz has added n entries: on to the loop of
\* line 64, or out with the exception of tar.add
AfterTar(n) == IF n = 3 THEN "move" ELSE "unwind"

\* mutant: the loop leaves one file short
AfterMove_short(k) == IF k < 2 THEN "move" ELSE "cleanup"
\* the position after the i-th pass of the loop of line 64
AfterMove(k) == IF k < 3 THEN "move" ELSE "cleanup"

Init ==
    /\ pc = "idle"
    /\ args = NoArgs
    /\ run = 0
    /\ tmp = NoDir
    /\ archive = NoDir
    /\ out = <<>>
    /\ last = "none"
    /\ pre = NoDir
    /\ log = <<>>
    /\ i = 0
    /\ geo = NoGeo

\* lines 25-38: read the arguments; without a required one print and return,
\* otherwise enter the scratch directory
Invoke ==
    /\ pc = "idle"
    /\ run < MaxRuns
    /\ \E p \in CliArgs :
        /\ args' = p
        /\ IF Missing(p)
           THEN /\ out' = <<"Please provide the internal length, width, and height of the box.">>
                /\ pc' = "done"
                /\ last' = "returned"
                /\ tmp' = tmp
                /\ log' = <<>>
           ELSE /\ out' = <<>>
                /\ pc' = "generate"
                /\ last' = "running"
                /\ tmp' = EmptyDir
                /\ log' = <<"mkdtemp">>
    /\ run' = run + 1
    /\ pre' = archive
    /\ i' = 0
    /\ geo' = NoGeo
    /\ UNCHANGED archive

\* line 41: create_full_box_with_lid exports the two meshes, or raises
Generate ==
    /\ pc = "generate"
    /\ LET g == create_full_box_with_lid(Params(args))
       IN  /\ geo' = g
           /\ tmp' = PutAll(tmp, g.exported, run)
           /\ out' = out \o g.printed
           /\ log' = log \o [k \in 1..Len(g.exported) |-> "export"]
           /\ pc' = IF g.raised THEN "unwind" ELSE "readme"
    /\ UNCHANGED <<args, run, archive, last, pre, i>>

\* lines 51-54
WriteReadme ==
    /\ pc = "readme"
    /\ tmp' = Put(tmp, File(files_to_include(args)[3][2], run))
    /\ log' = Append(log, "readme")
    /\ pc' = "mkdir"
    /\ UNCHANGED <<args, run, archive, out, last, pre, i, geo>>

\* lines 57-59
EnsureArchive ==
    /\ pc = "mkdir"
    /\ archive' = IF archive.exists THEN archive ELSE EmptyDir
    /\ log' = Append(log, "archive_dir")
    /\ pc' = "tar"
    /\ UNCHANGED <<args, run, tmp, out, last, pre, i, geo>>

\* lines 62-63 and 67-72
CreateTarGz ==
    /\ pc = "tar"
    /\ LET entries == TarEntries(tmp, files_to_include(args))
           tar == [name |-> output_filename(args)[2], run |-> run, entries |-> entries]
       IN  /\ archive' = Put(archive, tar)
           /\ IF Len(entries) = 3
              THEN /\ out' = Append(out, "Created and archived")
                   /\ i' = 1
              ELSE /\ out' = out
                   /\ i' = i
           /\ pc' = AfterTar(Len(entries))
    /\ log' = Append(log, "tar")
    /\ UNCHANGED <<args, run, tmp, last, pre, geo>>

\* lines 64-65: one pass of the loop
Move ==
    /\ pc = "move"
    /\ LET file == files_to_include(args)[i]
       IN  IF MoveRaises(archive, file) \/ ~Has(tmp, file[2])
           THEN /\ pc' = "unwind"
                /\ UNCHANGED <<tmp, archive, log, i>>
           ELSE /\ archive' = Put(archive, Get(tmp, file[2]))
                /\ tmp' = Relocated(tmp, file[2])
                /\ log' = Append(log, "move")
                /\ i' = i + 1
                /\ pc' = AfterMove(i)
    /\ UNCHANGED <<args, run, out, last, pre, geo>>

\* line 38: the with statement leaves the scratch directory, normally or
\* with the exception that is propagating
Cleanup ==
    /\ pc \in {"cleanup", "unwind"}
    /\ tmp' = NoDir
    /\ log' = Append(log, "cleanup")
    /\ last' = IF pc = "unwind" THEN "error" ELSE "ok"
    /\ pc' = "done"
    /\ UNCHANGED <<args, run, archive, out, pre, i, geo>>

\* lines 124-126: the process ends; the working directory stays
Exit ==
    /\ pc = "done"
    /\ pc' = "idle"
    /\ args' = NoArgs
    /\ out' = <<>>
    /\ last' = "none"
    /\ pre' = NoDir
    /\ log' = <<>>
    /\ i' = 0
    /\ geo' = NoGeo
    /\ UNCHANGED <<run, tmp, archive>>

Next ==
    \/ Invoke
    \/ Generate
    \/ WriteReadme
    \/ EnsureArchive
    \/ CreateTarGz
    \/ Move
    \/ Cleanup
    \/ Exit

Spec == Init /\ [][Next]_vars

----------------------------------------------------------------------------
(* The geometry alone: create_full_box_with_lid applied to every            *)
(* combination of dimensions drawn from GeomArgs.                           *)

GeomArgs ==
    [length : {Some(Unit * k) : k \in -1..MaxDim},
     width : {Some(Unit * k) : k \in -1..MaxDim},
     height : {Some(Unit * k) : k \in -1..MaxDim},
     thickness : {Half * k : k \in -1..MaxHalves},
     overlap : {Half * k : k \in -1..MaxHalves},
     lid_height : {Half * k : k \in -1..MaxHalves}]

GeomInit ==
    /\ pc = "call"
    /\ args \in GeomArgs
    /\ run = 1
    /\ tmp = EmptyDir
    /\ archive = NoDir
    /\ out = <<>>
    /\ last = "running"
    /\ pre = NoDir
    /\ log = <<>>
    /\ i = 0
    /\ geo = NoGeo

\* lines 74-114
Build ==
    /\ pc = "call"
    /\ LET g == create_full_box_with_lid(Params(args))
       IN  /\ geo' = g
           /\ tmp' = PutAll(tmp, g.exported, run)
           /\ out' = g.printed
           /\ pc' = IF g.raised THEN "raised" ELSE "returned"
    /\ UNCHANGED <<args, run, archive, last, pre, log, i>>

GeomNext == Build

GeomSpec == GeomInit /\ [][GeomNext]_vars

----------------------------------------------------------------------------
(* Properties *)

P == Params(args)

AnyAbsent == args.length = None \/ args.width = None \/ args.height = None

Built == pc \in {"returned", "raised"}

Positive ==
    /\ P.length > 0 /\ P.width > 0 /\ P.height > 0
    /\ P.thickness > 0 /\ P.overlap > 0 /\ P.lid_height > 0

SameBounds(m, o) == m.kind = "mesh" /\ m.lo = o.lo /\ m.hi = o.hi

BaseEnvelope ==
    Extents(base_outer(P))
        = <<P.length + 2 * P.thickness, P.width + 2 * P.thickness, P.height + P.thickness>>

LidEnvelope ==
    Extents(lid_outer(P))
        = <<P.length + 2 * P.thickness + 2 * P.overlap,
            P.width + 2 * P.thickness + 2 * P.overlap, P.lid_height>>

\* C1 as stated: for all positive L, W, H, T, O, LH the outer boxes have the
\* envelopes (L+2T, W+2T, H+T) and (L+2T+2O, W+2T+2O, LH) and both solids keep
\* the bounds of their outer box.  (GeomSpec)
C1_AsStated ==
    (Built /\ Positive) =>
        /\ BaseEnvelope /\ LidEnvelope
        /\ SameBounds(geo.box_base, base_outer(P))
        /\ SameBounds(geo.box_lid, lid_outer(P))

\* C1 amended: for all positive inputs the two outer boxes have those
\* envelopes and the base solid keeps the bounds of its outer box; the lid
\* solid keeps the bounds of its outer box whenever LH > T/2, that is whenever
\* the lid cavity has a positive height.  (GeomSpec)
C1_Envelopes ==
    (Built /\ Positive) =>
        /\ BaseEnvelope /\ LidEnvelope
        /\ SameBounds(geo.box_base, base_outer(P))
        /\ (2 * P.lid_height > P.thickness) =>
               pc = "returned" /\ SameBounds(geo.box_lid, lid_outer(P))

\* thin walls and a small overlap: both cavities stick out of their outer box
C1_Witness ==
    /\ pc = "returned" /\ Positive
    /\ P.thickness = Half /\ P.overlap = Half
    /\ base_inner(P).lo[1] < base_outer(P).lo[1]
    /\ lid_inner(P).hi[3] > lid_outer(P).hi[3]
    /\ geo.box_lid.kind = "mesh"

\* C2 as stated: for every input the lid cavity's length and width are at
\* least the base's external length and width and exceed them by exactly the
\* clearance 0.15 (the double the literal denotes), whatever the input.
\* (GeomSpec)
C2_AsStated ==
    Built =>
        /\ FGe(lid_inner_length(P), external_length(P))
        /\ FGe(lid_inner_width(P), external_width(P))
        /\ FSub(lid_inner_length(P), external_length(P)) = ClearanceDouble
        /\ FSub(lid_inner_width(P), external_width(P)) = ClearanceDouble

\* the excess d of a lid cavity dimension over the external dimension x is
\* 0.15 to within half a unit in the last place of their sum
NearClearance(d, x) ==
    /\ d.t = Clearance
    /\ 2 * Abs(d.u - ClearanceDouble.u) <= 5 * UlpUnits(x + Clearance, 1)

\* C2 amended: for every input the lid cavity's length and width are at least
\* the base's external length and width; the excess is 0.15 only up to the
\* rounding of the sum (within half an ulp of it), so it varies with L, W and
\* T, and is the double 0.15 itself only where the external dimension is 0;
\* it does not depend on O or LH.  To the tick the boxes built differ by the
\* clearance where the external dimensions are positive.  (GeomSpec)
C2_Clearance ==
    Built =>
        /\ FGe(lid_inner_length(P), external_length(P))
        /\ FGe(lid_inner_width(P), external_width(P))
        /\ NearClearance(FSub(lid_inner_length(P), external_length(P)), external_length(P))
        /\ NearClearance(FSub(lid_inner_width(P), external_width(P)), external_width(P))
        /\ (FSub(lid_inner_length(P), external_length(P)) = ClearanceDouble)
               <=> (external_length(P) = 0)
        /\ (FSub(lid_inner_width(P), external_width(P)) = ClearanceDouble)
               <=> (external_width(P) = 0)
        /\ (geo.box_lid.kind = "mesh" /\ external_length(P) > 0 /\ external_width(P) > 0) =>
            /\ Extents(lid_inner(P))[1] - Extents(base_outer(P))[1] = Clearance
            /\ Extents(lid_inner(P))[2] - Extents(base_outer(P))[2] = Clearance

\* 4.0 + 0.15 rounds up, 3.0 + 0.15 rounds down: two different excesses
C2_Witness ==
    /\ pc = "returned"
    /\ geo.box_lid.kind = "mesh"
    /\ P.thickness # DefaultThickness
    /\ P.overlap # DefaultOverlap
    /\ external_length(P) = 4 * Unit /\ external_width(P) = 3 * Unit
    /\ FSub(lid_inner_length(P), external_length(P)).u > 0
    /\ FSub(lid_inner_width(P), external_width(P)).u < ClearanceDouble.u

\* the two walls left on axis k: low side, high side
WallLo(o, c, k) == c.lo[k] - o.lo[k]
WallHi(o, c, k) == o.hi[k] - c.hi[k]

\* C9: the base cavity's horizontal offset is zero on both axes iff T = 2 (and
\* then both walls are T wide); the lid cavity's iff O = 2; for any other value
\* the two opposite walls on each horizontal axis differ.  (GeomSpec)
C9_OffsetsCancel ==
    Built =>
        /\ (base_translation(P)[1] = 0 /\ base_translation(P)[2] = 0) <=> (P.thickness = Two)
        /\ (lid_translation(P)[1] = 0 /\ lid_translation(P)[2] = 0) <=> (P.overlap = Two)
        /\ \A k \in {1, 2} :
            /\ (WallLo(base_outer(P), base_inner(P), k) = WallHi(base_outer(P), base_inner(P), k))
                   <=> (P.thickness = Two)
            /\ (WallLo(lid_outer(P), lid_inner(P), k) = WallHi(lid_outer(P), lid_inner(P), k))
                   <=> (P.overlap = Two)
            /\ (P.thickness = Two /\ P.length > 0 /\ P.width > 0) =>
                   /\ WallLo(base_outer(P), base_inner(P), k) = P.thickness
                   /\ WallHi(base_outer(P), base_inner(P), k) = P.thickness

C9_Witness ==
    /\ pc = "returned"
    /\ P.thickness > Two /\ P.overlap < Two
    /\ WallLo(base_outer(P), base_inner(P), 1) > WallHi(base_outer(P), base_inner(P), 1)
    /\ WallLo(lid_outer(P), lid_inner(P), 2) < WallHi(lid_outer(P), lid_inner(P), 2)

\* C10: for all L, W, H, T > 0 the base cavity's top face lies in the plane of
\* the outer box's top face and the floor under the cavity is exactly T thick;
\* the base solid is produced and reaches that top plane.  (GeomSpec)
C10_OpenTopFloorT ==
    (Built /\ P.length > 0 /\ P.width > 0 /\ P.height > 0 /\ P.thickness > 0) =>
        /\ base_inner(P).hi[3] = base_outer(P).hi[3]
        /\ WallLo(base_outer(P), base_inner(P), 3) = P.thickness
        /\ geo.box_base.kind = "mesh"
        /\ geo.box_base.hi[3] = base_inner(P).hi[3]

C10_Witness ==
    /\ Built
    /\ P.length > 0 /\ P.width > 0 /\ P.height > 0
    /\ P.thickness > 0 /\ P.thickness # Two
    /\ P.height < P.thickness
    /\ geo.box_base.kind = "mesh"

----------------------------------------------------------------------------
(* Properties of an invocation (Spec) *)

Usage == <<"Please provide the internal length, width, and height of the box.">>

BaseName == base_filename(P)
LidName == lid_filename(P)
TarName == tar_filename(P)
Outputs == {BaseName, LidName, readme_filename, TarName}

\* the file `name` of directory d was written by the current invocation
Fresh(d, name) == Has(d, name) /\ Get(d, name).run = run

Logged(step) == \E k \in 1..Len(log) : log[k] = step

\* C3: with a required dimension absent _default prints the message and
\* returns without raising, having created no scratch directory, written no
\* mesh or manifest and left archive/ and its tarballs as they were; with all
\* three present, whatever their values, the run goes on to generation.
C3_MissingStopsPresentGenerates ==
    /\ (pc # "idle" /\ AnyAbsent) =>
        /\ pc = "done" /\ last = "returned"
        /\ out = Usage
        /\ ~tmp.exists /\ tmp.files = {}
        /\ log = <<>> /\ ~geo.called
        /\ archive = pre
    /\ (pc # "idle" /\ ~AnyAbsent) =>
        /\ last # "returned"
        /\ out # Usage
        /\ pc = "generate" \/ geo.called

\* height absent, in a directory that already holds the outputs of a run
C3_Witness ==
    /\ pc = "done" /\ last = "returned"
    /\ args.length = Some(0) /\ args.width # None /\ args.height = None
    /\ pre.exists /\ Cardinality(pre.files) = 4

\* the four outputs of an earlier completed run with the same L, W, H were in
\* archive/ when this invocation started
PriorOutputs == ~AnyAbsent /\ \A n \in Outputs : Has(pre, n)

\* C4 as stated: a run repeating the L, W, H of an earlier completed run
\* completes and overwrites each of the four prior outputs in archive/.
C4_RerunOverwrites ==
    (pc = "done" /\ PriorOutputs) =>
        /\ last = "ok"
        /\ \A n \in Outputs : Fresh(archive, n)

\* C5: once generation has succeeded and create_tar_gz has run, the tarball
\* archive/box_{L}x{W}x{H}.tar.gz holds exactly the three entries base mesh,
\* lid mesh, README.txt under their bare names, and all three files are in the
\* scratch directory when create_tar_gz starts; a run whose generation
\* succeeded ends with that tarball.
C5_TarballEntries ==
    /\ pc = "tar" =>
        \A k \in 1..3 : Fresh(tmp, files_to_include(args)[k][2])
    /\ (~AnyAbsent /\ Logged("tar")) =>
        /\ Fresh(archive, TarName)
        /\ Get(archive, TarName).entries = <<BaseName, LidName, readme_filename>>
    /\ (pc = "done" /\ geo.called /\ ~geo.raised) => Logged("tar")

C5_Witness ==
    /\ pc = "done" /\ geo.called /\ ~geo.raised
    /\ Get(archive, TarName).entries = <<BaseName, LidName, "README.txt">>
    /\ BaseName = "box_base_2.0x1.0x1.0.stl"
    /\ TarName = "box_2.0x1.0x1.0.tar.gz"

\* C6 as stated: archive/ absent before a run with all required dimensions
\* present: the run creates it and ends with exactly the four outputs in it.
C6_AsStated ==
    (pc = "done" /\ ~AnyAbsent /\ ~pre.exists) =>
        /\ archive.exists
        /\ Names(archive) = Outputs
        /\ Cardinality(archive.files) = 4

\* C6 amended: archive/ absent before a run with all required dimensions
\* present whose generation does not raise: the run creates archive/, ends
\* normally, and archive/ then holds exactly the four outputs, all written by
\* this run; when generation raises archive/ is not created.
C6_ArchiveCreated ==
    (pc = "done" /\ ~AnyAbsent /\ ~pre.exists) =>
        IF geo.raised
        THEN ~archive.exists /\ last = "error"
        ELSE /\ archive.exists
             /\ last = "ok"
             /\ Names(archive) = Outputs
             /\ Cardinality(archive.files) = 4
             /\ \A n \in Outputs : Fresh(archive, n)

C6_Witness ==
    /\ pc = "done" /\ ~AnyAbsent /\ ~pre.exists /\ ~geo.raised
    /\ archive.exists /\ Cardinality(archive.files) = 4

IsPrefix(s, t) == Len(s) <= Len(t) /\ s = SubSeq(t, 1, Len(s))

StepsBeforeCleanup ==
    <<"mkdtemp", "export", "export", "readme", "archive_dir", "tar", "move", "move", "move">>

\* C7: in a run that reaches generation the steps taken are, in order, scratch
\* directory created, the two meshes exported, manifest written, archive/
\* ensured, tarball written, three moves, scratch directory removed; the
\* cleanup of a normal run comes after all three moves; the scratch directory
\* exists until the cleanup and is gone when the invocation has ended,
\* normally or with an error.
C7_StepOrder ==
    /\ (Logged("cleanup"))
         => /\ IsPrefix(SubSeq(log, 1, Len(log) - 1), StepsBeforeCleanup)
            /\ log[Len(log)] = "cleanup"
            /\ pc = "done" /\ last \in {"ok", "error"}
    /\ (~Logged("cleanup")) => IsPrefix(log, StepsBeforeCleanup)
    /\ last = "ok" => log = Append(StepsBeforeCleanup, "cleanup")
    /\ (pc \in {"done", "idle"}) => ~tmp.exists
    /\ (pc \notin {"done", "idle"}) => tmp.exists /\ log # <<>> /\ ~Logged("cleanup")
    /\ (pc = "done" /\ ~AnyAbsent) => Logged("cleanup")

C7_Witness ==
    /\ pc = "done" /\ last = "ok"
    /\ log = <<"mkdtemp", "export", "export", "readme", "archive_dir", "tar",
               "move", "move", "move", "cleanup">>
    /\ ~tmp.exists

\* the run failed after create_tar_gz returned and before the third move ended
FailedInMoves == ~AnyAbsent /\ i \in 1..3 /\ pc \in {"unwind", "done"}

\* C8 as stated: a failure after create_tar_gz has returned and before all
\* three moves have completed ends the run with the error; the tarball written
\* by this run stays in archive/, the files already moved stay in archive/,
\* and every source file not yet moved is absent from archive/ and, when the
\* failure strikes, still in the scratch directory.
C8_AsStated ==
    FailedInMoves =>
        /\ pc = "done" => last = "error"
        /\ Fresh(archive, TarName)
        /\ Len(Get(archive, TarName).entries) = 3
        /\ \A k \in 1..(i - 1) : Fresh(archive, files_to_include(args)[k][2])
        /\ \A k \in i..3 :
            /\ ~Has(archive, files_to_include(args)[k][2])
            /\ pc = "unwind" => Fresh(tmp, files_to_include(args)[k][2])

====
